---- MODULE Spec2Model ----
(***************************************************************************)
(* Model of the scraping program: BaseScraper (base_scraper.py) and        *)
(* ThaiRathNewsScraper (thairath_news_scrapper.py).                        *)
(*                                                                         *)
(* The program is sequential.  Every method is modelled as a frame of      *)
(* local variables plus a program counter; the web server is the only      *)
(* source of nondeterminism (every GET either raises a RequestException or *)
(* answers with a document), together with random.uniform.                 *)
(*                                                                         *)
(* Encodings                                                               *)
(*   None            <<>>            Python's None                         *)
(*   Some(x)         <<x>>           any value that is not None            *)
(*   text            sequence of one-character strings                     *)
(*   tag             [kind, strings]: strings are the tag's text nodes in  *)
(*                   document order                                        *)
(*   document        [slick, body]: the optional div.slick-track with its  *)
(*                   <a> elements, the optional div.article-body with its  *)
(*                   <p> elements                                          *)
(***************************************************************************)
EXTENDS Integers, Sequences, FiniteSets, TLC

(***************************************************************************)
(* Bounds of the model                                                     *)
(***************************************************************************)
MaxRetries == 3      \* max_retries ranges over 1..MaxRetries (SpecRequest)
MaxLinks == 2        \* <a> elements in a carousel container
MaxParas == 2        \* <p> elements in an article body
MaxStrings == 2      \* text nodes of an element handed to extract_text
MaxNodeLen == 2      \* characters of one such text node

(***************************************************************************)
(* Program constants                                                       *)
(***************************************************************************)
DefaultMaxRetries == 3
DelayMin == 1
DelayMax == 3
delay_range == <<DelayMin, DelayMax>>
base_url == "https://www.thairath.co.th/news/"
news_category == <<"royal", "society", "politic", "money", "foreign", "crime">>

None == <<>>
Some(x) == <<x>>

(***************************************************************************)
(* Text                                                                    *)
(***************************************************************************)
IsSpace(c) == c = " "

RECURSIVE LStrip(_)
LStrip(s) == IF s = <<>> THEN <<>>
             ELSE IF IsSpace(Head(s)) THEN LStrip(Tail(s)) ELSE s

RECURSIVE RStrip(_)
RStrip(s) == IF s = <<>> THEN <<>>
             ELSE IF IsSpace(s[Len(s)]) THEN RStrip(SubSeq(s, 1, Len(s) - 1)) ELSE s

\* str.strip()
Strip(s) == RStrip(LStrip(s))

\* bs4 Tag.get_text(strip=False): the text nodes joined with no separator.
RECURSIVE GetTextRaw(_)
GetTextRaw(strings) ==
    IF strings = <<>> THEN <<>> ELSE Head(strings) \o GetTextRaw(Tail(strings))

\* bs4 Tag.get_text(strip=True): every text node is stripped on its own,
\* nodes that become empty are dropped, the rest is joined with no separator.
RECURSIVE GetTextStripped(_)
GetTextStripped(strings) ==
    IF strings = <<>> THEN <<>>
    ELSE Strip(Head(strings)) \o GetTextStripped(Tail(strings))

(***************************************************************************)
(* Values the environment supplies                                         *)
(***************************************************************************)
Tag(strings) == [kind |-> "tag", strings |-> strings]

\* <a href="/a1" title="T1">, <a href="/a2"> (no title attribute)
LinkSet == { [href |-> Some("/a1"), title |-> Some("T1")],
             [href |-> Some("/a2"), title |-> None] }

\* <p>Part1</p>, <p> b<i>c </i></p>
ParaSet == { Tag(<< <<"P", "1">> >>), Tag(<< <<" ", "b">>, <<"c", " ">> >>) }

SeqsUpTo(S, n) == UNION { [1..k -> S] : k \in 0..n }

Doc(slick, body) == [slick |-> slick, body |-> body]

\* What the site may answer for a category URL and for an article URL.
CategoryDocs == { Doc(None, None) } \cup { Doc(Some(l), None) : l \in SeqsUpTo(LinkSet, MaxLinks) }
ArticleDocs == { Doc(None, None) } \cup { Doc(None, Some(p)) : p \in SeqsUpTo(ParaSet, MaxParas) }
DirectDocs == { Doc(None, None), Doc(None, Some(<< Tag(<< <<"P", "1">> >>) >>)) }

DocsFor(caller) == CASE caller = "highlight" -> CategoryDocs
                     [] caller = "content" -> ArticleDocs
                     [] OTHER -> DirectDocs

\* random.uniform(*self.delay_range): any number of the interval; the model
\* draws its two ends
DelayChoices == {delay_range[1], delay_range[2]}

\* The category a direct caller of scrape_highlight_news passes, and the URLs
\* a direct caller of make_request passes.
CallCategories == { news_category[1] }
CallUrls == { base_url \o news_category[i] : i \in 1..Len(news_category) }

\* Arguments of extract_text.
CharSet == {" ", "a"}
TextNodes == SeqsUpTo(CharSet, MaxNodeLen)
Elements == { [kind |-> "none", strings |-> <<>>],      \* None
              [kind |-> "falsy", strings |-> <<>>],     \* 0, "", [] ...
              [kind |-> "other", strings |-> <<>>] }    \* truthy, has no get_text
            \cup { Tag(s) : s \in SeqsUpTo(TextNodes, MaxStrings) }
Defaults == { <<>>, <<"d">> }

(***************************************************************************)
(* State                                                                   *)
(***************************************************************************)
VARIABLES
    max_retries,   \* self.max_retries
    pc,            \* position of the running call
    op,            \* the public method the caller invoked
    raised,        \* the exception that left the public method, or "none"
    r_url, r_caller, attempt, r_ret,          \* make_request frame
    trace,         \* sleeps, GETs and log records of the current make_request
    requests,      \* make_request calls issued since the public method began
    h_url, h_category, h_soup, h_links, h_i, h_data, h_ret,   \* scrape_highlight_news
    c_url, c_soup, c_ret,                     \* scrape_news_content frame
    s_idx, s_log,  \* scrape: index into news_category, calls and sleeps made
    x_element, x_default, x_ret               \* extract_text: arguments, outcome

reqVars == <<r_url, r_caller, attempt, r_ret, trace, requests>>
hlVars == <<h_url, h_category, h_soup, h_links, h_i, h_data, h_ret>>
ncVars == <<c_url, c_soup, c_ret>>
scVars == <<s_idx, s_log>>
xVars == <<x_element, x_default, x_ret>>
vars == <<max_retries, pc, op, raised, reqVars, hlVars, ncVars, scVars, xVars>>

Ev(e, a) == [ev |-> e, arg |-> a]

Frames0 ==
    /\ pc = "idle" /\ op = "none" /\ raised = "none"
    /\ r_url = "" /\ r_caller = "none" /\ attempt = 0 /\ r_ret = None
    /\ trace = <<>> /\ requests = 0
    /\ h_url = "" /\ h_category = "" /\ h_soup = None /\ h_links = <<>>
    /\ h_i = 0 /\ h_data = <<>> /\ h_ret = None
    /\ c_url = "" /\ c_soup = None /\ c_ret = None
    /\ s_idx = 0 /\ s_log = <<>>
    /\ x_ret = [raised |-> "none", value |-> <<>>]

(***************************************************************************)
(* BaseScraper.make_request                                                *)
(***************************************************************************)
\* a call of self.make_request(url)
CallRequest(url, caller) ==
    /\ r_url' = url /\ r_caller' = caller
    /\ attempt' = 0 /\ r_ret' = None /\ trace' = <<>>
    /\ requests' = requests + 1
    /\ pc' = "req_loop"

\* return <ret> of make_request, to the statement after the call
ReqReturn(ret) ==
    /\ r_ret' = ret
    /\ pc' = CASE r_caller = "highlight" -> "hl_soup"
               [] r_caller = "content" -> "nc_soup"
               [] OTHER -> "done"

\* mutant: a linear backoff, time.sleep(2*attempt)
Backoff_Linear(k) == 2 * k

\* time.sleep(2**attempt)
Backoff(k) == 2 ^ k

\* mutant: the last attempt is tested off by one, attempt == self.max_retries
IsLastAttempt_OffByOne(k) == k = max_retries

\* if attempt == self.max_retries - 1
IsLastAttempt(k) == k = max_retries - 1

\* for attempt in range(self.max_retries): ... time.sleep(random.uniform(..))
\* and, the range exhausted, the return None after the loop
ReqSleep ==
    /\ pc = "req_loop"
    /\ IF attempt < max_retries
       THEN /\ \E d \in DelayChoices : trace' = Append(trace, Ev("sleep", d))
            /\ pc' = "req_get"
            /\ r_ret' = r_ret
       ELSE /\ ReqReturn(None)
            /\ trace' = trace
    /\ UNCHANGED <<max_retries, op, raised, r_url, r_caller, attempt, requests,
                   hlVars, ncVars, scVars, xVars>>

\* mutant: the document is parsed but not returned, the loop goes on
ReqGetOk_NoReturn ==
    /\ pc = "req_get"
    /\ \E doc \in DocsFor(r_caller) :
          /\ trace' = trace \o <<Ev("get", attempt), Ev("parse", attempt)>>
          /\ r_ret' = Some(doc)
    /\ attempt' = attempt + 1
    /\ pc' = "req_loop"
    /\ UNCHANGED <<max_retries, op, raised, r_url, r_caller, requests,
                   hlVars, ncVars, scVars, xVars>>

\* requests.get succeeds, raise_for_status passes: return BeautifulSoup(...)
ReqGetOk ==
    /\ pc = "req_get"
    /\ \E doc \in DocsFor(r_caller) :
          /\ trace' = trace \o <<Ev("get", attempt), Ev("parse", attempt)>>
          /\ ReqReturn(Some(doc))
    /\ UNCHANGED <<max_retries, op, raised, r_url, r_caller, attempt, requests,
                   hlVars, ncVars, scVars, xVars>>

\* requests.get or raise_for_status raises a RequestException: the handler
ReqGetFail ==
    /\ pc = "req_get"
    /\ IF IsLastAttempt(attempt)
       THEN /\ trace' = trace \o <<Ev("get", attempt), Ev("warning", attempt + 1),
                                   Ev("error", max_retries)>>
            /\ ReqReturn(None)
       ELSE /\ trace' = trace \o <<Ev("get", attempt), Ev("warning", attempt + 1)>>
            /\ pc' = "req_backoff"
            /\ r_ret' = r_ret
    /\ UNCHANGED <<max_retries, op, raised, r_url, r_caller, attempt, requests,
                   hlVars, ncVars, scVars, xVars>>

\* time.sleep(2**attempt), then the next iteration of the loop
ReqBackoff ==
    /\ pc = "req_backoff"
    /\ trace' = Append(trace, Ev("backoff", Backoff(attempt)))
    /\ attempt' = attempt + 1
    /\ pc' = "req_loop"
    /\ UNCHANGED <<max_retries, op, raised, r_url, r_caller, r_ret, requests,
                   hlVars, ncVars, scVars, xVars>>

\* a caller invokes make_request(url) on a BaseScraper
MakeRequestCall ==
    /\ pc = "idle"
    /\ op' = "make_request"
    /\ \E url \in CallUrls : CallRequest(url, "direct")
    /\ UNCHANGED <<max_retries, raised, hlVars, ncVars, scVars, xVars>>

\* BaseScraper(base_url, max_retries=N)
InitRequest ==
    /\ max_retries \in 1..MaxRetries
    /\ x_element = [kind |-> "none", strings |-> <<>>] /\ x_default = <<>>
    /\ Frames0

NextRequest == MakeRequestCall \/ ReqSleep \/ ReqGetOk \/ ReqGetFail \/ ReqBackoff

SpecRequest == InitRequest /\ [][NextRequest]_vars

(***************************************************************************)
(* ThaiRathNewsScraper                                                     *)
(***************************************************************************)
\* an uncaught exception leaves every frame: no method has a handler for it
Raise(e) == raised' = e /\ pc' = "done"

\* f"{x}" of an attribute value: a missing attribute formats as "None"
Format(attr) == IF attr = None THEN "None" ELSE attr[1]

\* news_content_link = f"{url}{news.get('href')}"
NewsContentLink(url, news) == url \o Format(news.href)

\* the dict appended for one <a> element
NewsRecord(news, link, category, content) ==
    [title |-> news.title, link |-> link, news_type |-> category, content |-> content]

\* mutant: new_content = line.getText(), only the last paragraph is kept
NewContent_LastOnly(paras) ==
    IF paras = <<>> THEN <<>> ELSE GetTextRaw(paras[Len(paras)].strings)

\* new_content += line.getText(), over the <p> elements in document order
RECURSIVE NewContent(_)
NewContent(paras) ==
    IF paras = <<>> THEN <<>>
    ELSE GetTextRaw(Head(paras).strings) \o NewContent(Tail(paras))

\* def scrape_highlight_news(self, url, category)
HighlightParams == <<"url", "category">>

\* the positional arguments of the call in scrape:
\* self.scrape_highlight_news(f"{self.base_url}{category}")
ScrapeCallArgs(category) == << base_url \o category >>

\* return <ret> of scrape_highlight_news.  Called from scrape, the statement
\* after the call is time.sleep(random.uniform(*self.delay_range)) and the
\* next iteration of the loop over news_category.
HighlightReturn(ret) ==
    /\ h_ret' = ret
    /\ IF op = "scrape"
       THEN /\ \E d \in DelayChoices : s_log' = Append(s_log, Ev("sleep", d))
            /\ s_idx' = s_idx + 1
            /\ pc' = "sc_loop"
       ELSE /\ pc' = "done"
            /\ UNCHANGED scVars

\* entry of scrape_highlight_news: soup = self.make_request(url)
HighlightEnter(url, category) ==
    /\ h_url' = url /\ h_category' = category
    /\ h_soup' = None /\ h_links' = <<>> /\ h_i' = 0 /\ h_data' = <<>> /\ h_ret' = None
    /\ CallRequest(url, "highlight")

\* a caller invokes scrape_highlight_news(base_url + category, category)
HighlightCall ==
    /\ pc = "idle"
    /\ op' = "scrape_highlight_news"
    /\ requests = 0
    /\ \E category \in CallCategories : HighlightEnter(base_url \o category, category)
    /\ UNCHANGED <<max_retries, raised, ncVars, scVars, xVars>>

\* if not soup: return None
\* highlight_news = soup.find("div", {"class": "slick-track"}).find_all("a")
HighlightSoup ==
    /\ pc = "hl_soup"
    /\ h_soup' = r_ret
    /\ IF r_ret = None
       THEN /\ HighlightReturn(None)
            /\ UNCHANGED <<raised, h_links, h_i, h_data>>
       ELSE IF r_ret[1].slick = None
       THEN /\ Raise("AttributeError")      \* None.find_all
            /\ UNCHANGED <<h_links, h_i, h_data, h_ret, scVars>>
       ELSE /\ h_links' = r_ret[1].slick[1]
            /\ h_i' = 1
            /\ h_data' = <<>>
            /\ pc' = "hl_loop"
            /\ UNCHANGED <<raised, h_ret, scVars>>
    /\ UNCHANGED <<max_retries, op, reqVars, h_url, h_category, ncVars, xVars>>

\* for news in highlight_news: ... self.scrape_news_content(news_content_link)
\* whose first statement is soup = self.make_request(url);
\* the list exhausted: return highlight_news_data
HighlightLoop ==
    /\ pc = "hl_loop"
    /\ IF h_i <= Len(h_links)
       THEN /\ c_url' = NewsContentLink(h_url, h_links[h_i])
            /\ c_soup' = None /\ c_ret' = None
            /\ CallRequest(NewsContentLink(h_url, h_links[h_i]), "content")
            /\ UNCHANGED <<h_ret, scVars>>
       ELSE /\ HighlightReturn(Some(h_data))
            /\ UNCHANGED <<reqVars, ncVars>>
    /\ UNCHANGED <<max_retries, op, raised, h_url, h_category, h_soup, h_links,
                   h_i, h_data, xVars>>

\* mutant: a failed fetch yields an empty content string instead of None
ContentSoup_EmptyOnNone ==
    /\ pc = "nc_soup"
    /\ c_soup' = r_ret
    /\ IF r_ret = None
       THEN /\ c_ret' = Some(<<>>)
            /\ pc' = "hl_append"
            /\ raised' = raised
       ELSE IF r_ret[1].body = None
       THEN /\ Raise("AttributeError")
            /\ c_ret' = c_ret
       ELSE /\ c_ret' = Some(NewContent(r_ret[1].body[1]))
            /\ pc' = "hl_append"
            /\ raised' = raised
    /\ UNCHANGED <<max_retries, op, reqVars, hlVars, c_url, scVars, xVars>>

\* scrape_news_content after its request:
\* if not soup: return None
\* soup.find("div", {"class": "article-body"}).find_all("p"); return new_content
ContentSoup ==
    /\ pc = "nc_soup"
    /\ c_soup' = r_ret
    /\ IF r_ret = None
       THEN /\ c_ret' = None
            /\ pc' = "hl_append"
            /\ raised' = raised
       ELSE IF r_ret[1].body = None
       THEN /\ Raise("AttributeError")      \* None.find_all
            /\ c_ret' = c_ret
       ELSE /\ c_ret' = Some(NewContent(r_ret[1].body[1]))
            /\ pc' = "hl_append"
            /\ raised' = raised
    /\ UNCHANGED <<max_retries, op, reqVars, hlVars, c_url, scVars, xVars>>

\* highlight_news_data.append({...}), then the next <a> element
HighlightAppend ==
    /\ pc = "hl_append"
    /\ h_data' = Append(h_data, NewsRecord(h_links[h_i], c_url, h_category, c_ret))
    /\ h_i' = h_i + 1
    /\ pc' = "hl_loop"
    /\ UNCHANGED <<max_retries, op, raised, reqVars, h_url, h_category, h_soup,
                   h_links, h_ret, ncVars, scVars, xVars>>

\* a caller invokes scrape(url)
ScrapeCall ==
    /\ pc = "idle"
    /\ op' = "scrape"
    /\ s_idx' = 1 /\ s_log' = <<>>
    /\ pc' = "sc_loop"
    /\ UNCHANGED <<max_retries, raised, reqVars, hlVars, ncVars, xVars>>

\* for category in self.news_category:
\*     self.scrape_highlight_news(f"{self.base_url}{category}")
\* Python binds the positional arguments to the parameters before the body
\* runs and raises TypeError when a required one is missing.
ScrapeLoop ==
    /\ pc = "sc_loop"
    /\ IF s_idx > Len(news_category)
       THEN /\ pc' = "done"
            /\ UNCHANGED <<raised, reqVars, hlVars, s_log>>
       ELSE LET args == ScrapeCallArgs(news_category[s_idx]) IN
            IF Len(args) # Len(HighlightParams)
            THEN /\ Raise("TypeError")
                 /\ UNCHANGED <<reqVars, hlVars, s_log>>
            ELSE /\ s_log' = Append(s_log, Ev("list", args[1]))
                 /\ HighlightEnter(args[1], args[Len(HighlightParams)])
                 /\ raised' = raised
    /\ UNCHANGED <<max_retries, op, ncVars, s_idx, xVars>>

\* ThaiRathNewsScraper(): max_retries keeps its default
Init ==
    /\ max_retries = DefaultMaxRetries
    /\ x_element = [kind |-> "none", strings |-> <<>>] /\ x_default = <<>>
    /\ Frames0

Next ==
    \/ ScrapeCall \/ ScrapeLoop
    \/ HighlightCall \/ HighlightSoup \/ HighlightLoop \/ ContentSoup \/ HighlightAppend
    \/ ReqSleep \/ ReqGetOk \/ ReqGetFail \/ ReqBackoff

Spec == Init /\ [][Next]_vars

(***************************************************************************)
(* BaseScraper.extract_text                                                *)
(***************************************************************************)
Outcome(e, v) == [raised |-> e, value |-> v]

\* bool(element): None and falsy objects are false; a bs4 Tag is always true
Truthy(element) == element.kind \in {"tag", "other"}

\* element.get_text(strip=True); an object without get_text raises
CallGetText(element) ==
    IF element.kind = "tag"
    THEN Outcome("none", GetTextStripped(element.strings))
    ELSE Outcome("AttributeError", <<>>)

\* mutant: get_text is called without strip=True
extract_text_NoStrip(element, default) ==
    LET r == IF Truthy(element)
             THEN IF element.kind = "tag"
                  THEN Outcome("none", GetTextRaw(element.strings))
                  ELSE Outcome("AttributeError", <<>>)
             ELSE Outcome("none", default)
    IN  IF r.raised # "none" THEN Outcome("none", default) ELSE r

\* try: return element.get_text(strip=True) if element else default
\* except Exception: (warning) return default
extract_text(element, default) ==
    LET r == IF Truthy(element) THEN CallGetText(element) ELSE Outcome("none", default)
    IN  IF r.raised # "none" THEN Outcome("none", default) ELSE r

\* a caller invokes extract_text(element, default)
ExtractTextCall ==
    /\ pc = "idle"
    /\ op' = "extract_text"
    /\ x_ret' = extract_text(x_element, x_default)
    /\ pc' = "done"
    /\ UNCHANGED <<max_retries, raised, reqVars, hlVars, ncVars, scVars,
                   x_element, x_default>>

\* the arguments of the call are drawn here
InitText ==
    /\ max_retries = DefaultMaxRetries
    /\ x_element \in Elements /\ x_default \in Defaults
    /\ Frames0

NextText == ExtractTextCall

SpecText == InitText /\ [][NextText]_vars

(***************************************************************************)
(* Properties                                                              *)
(***************************************************************************)
CountEv(t, e) == Cardinality({ i \in 1..Len(t) : t[i].ev = e })
LastEv(t) == IF t = <<>> THEN "none" ELSE t[Len(t)].ev
RequestDone == op = "make_request" /\ pc = "done"

\* C1: with max_retries = N and every attempt failing, make_request makes
\* exactly N GET attempts (never more while it runs), then returns None with
\* exactly one error record, written last, and no exception reaches the caller.
C1_AllFailExactlyN ==
    /\ CountEv(trace, "get") <= max_retries
    /\ (RequestDone /\ CountEv(trace, "parse") = 0) =>
          /\ CountEv(trace, "get") = max_retries
          /\ CountEv(trace, "warning") = max_retries
          /\ r_ret = None
          /\ CountEv(trace, "error") = 1
          /\ LastEv(trace) = "error"
          /\ raised = "none"

C1_Witness ==
    /\ RequestDone /\ CountEv(trace, "parse") = 0
    /\ max_retries = 3 /\ CountEv(trace, "get") = 3 /\ r_ret = None

\* C2: when attempts 0..k-1 fail and attempt k (k < N) succeeds, make_request
\* returns a document after exactly k+1 GETs; the parse of the first success is
\* the last thing the call does: no GET, sleep, backoff or error record follows.
C2_SuccessOnKStopsAtKPlus1 ==
    /\ \A i \in 1..Len(trace) : trace[i].ev = "parse" => i = Len(trace)
    /\ (r_caller = "direct" /\ LastEv(trace) = "parse") => pc = "done"
    /\ (RequestDone /\ CountEv(trace, "parse") >= 1) =>
          LET k == CountEv(trace, "warning") IN
          /\ k < max_retries
          /\ r_ret # None /\ r_ret[1] \in DirectDocs
          /\ CountEv(trace, "get") = k + 1
          /\ CountEv(trace, "backoff") = k
          /\ CountEv(trace, "error") = 0
          /\ trace[Len(trace)] = Ev("parse", k)
          /\ raised = "none"

C2_Witness ==
    /\ RequestDone /\ r_ret # None
    /\ max_retries = 3 /\ CountEv(trace, "warning") = 1 /\ CountEv(trace, "get") = 2

RECURSIVE TwoToThe(_)
TwoToThe(k) == IF k = 0 THEN 1 ELSE 2 * TwoToThe(k - 1)

\* the number of GET events among the first i events of t
GetsUpTo(t, i) == Cardinality({ j \in 1..i : t[j].ev = "get" })

\* C3: a random delay within delay_range is slept immediately before every
\* GET, the first included; failed attempt k is followed by a backoff of
\* exactly 2^k for k = 0..N-2, and the final failed attempt by none.
C3_SleepSchedule ==
    \A i \in 1..Len(trace) :
        LET e == trace[i] IN
        /\ e.ev = "get" =>
              /\ e.arg = GetsUpTo(trace, i - 1)
              /\ i > 1 /\ trace[i - 1].ev = "sleep"
              /\ trace[i - 1].arg >= delay_range[1] /\ trace[i - 1].arg <= delay_range[2]
        /\ e.ev = "sleep" =>
              IF i = Len(trace) THEN pc = "req_get" ELSE trace[i + 1].ev = "get"
        /\ e.ev = "backoff" =>
              /\ trace[i - 1].ev = "warning"
              /\ trace[i - 1].arg <= max_retries - 1
              /\ e.arg = TwoToThe(trace[i - 1].arg - 1)
        /\ e.ev = "warning" =>
              /\ trace[i - 1] = Ev("get", e.arg - 1)
              /\ IF e.arg <= max_retries - 1
                 THEN IF i = Len(trace) THEN pc = "req_backoff"
                      ELSE trace[i + 1].ev = "backoff"
                 ELSE i < Len(trace) /\ trace[i + 1].ev = "error" /\ i + 1 = Len(trace)

C3_Witness ==
    /\ RequestDone /\ r_ret = None /\ max_retries = 3
    /\ \E i, j \in 1..Len(trace) :
          /\ i < j /\ trace[i] = Ev("backoff", 1) /\ trace[j] = Ev("backoff", 2)
    /\ CountEv(trace, "backoff") = 2

HighlightDone == op = "scrape_highlight_news" /\ pc = "done"

\* C4: scrape processes every category in order, calling scrape_highlight_news
\* on base_url + category and sleeping after each, and reaches the last one.
C4_ScrapeVisitsEveryCategory ==
    (op = "scrape" /\ pc = "done") =>
        /\ raised = "none"
        /\ s_idx = Len(news_category) + 1
        /\ Len(s_log) = 2 * Len(news_category)
        /\ \A i \in 1..Len(news_category) :
              /\ s_log[2 * i - 1] = Ev("list", base_url \o news_category[i])
              /\ s_log[2 * i].ev = "sleep"

\* C5: a fetched document without its container (div.slick-track in the
\* listing, div.article-body in the article) makes the operation return None
\* or an empty result; no exception ends the run.
C5_MissingContainerDoesNotRaise ==
    \/ (h_soup # None /\ h_soup[1].slick = None)
    \/ (c_soup # None /\ c_soup[1].body = None)
    => raised = "none"

\* C6: for a fetched category page whose container holds a_1..a_m,
\* scrape_highlight_news returns m records in document order, record i with
\* link = url + href_i, title_i, the category passed in and the content of
\* that link.
C6_ListingReturnsOneRecordPerLink ==
    (HighlightDone /\ h_soup # None /\ h_soup[1].slick # None) =>
        LET links == h_soup[1].slick[1] IN
        /\ raised = "none"
        /\ h_ret # None
        /\ Len(h_ret[1]) = Len(links)
        /\ \A i \in 1..Len(links) :
              /\ h_ret[1][i].link = h_url \o Format(links[i].href)
              /\ h_ret[1][i].title = links[i].title
              /\ h_ret[1][i].news_type = h_category

\* The same statement, for the calls that return.
C6_WhenReturned ==
    (HighlightDone /\ h_soup # None /\ h_soup[1].slick # None /\ raised = "none") =>
        LET links == h_soup[1].slick[1] IN
        /\ h_ret # None
        /\ Len(h_ret[1]) = Len(links)
        /\ \A i \in 1..Len(links) :
              /\ h_ret[1][i].link = h_url \o Format(links[i].href)
              /\ h_ret[1][i].title = links[i].title
              /\ h_ret[1][i].news_type = h_category

\* str.strip(), by positions: the text between the first and the last
\* character that is not whitespace
StripEnds(s) ==
    LET keep == { i \in 1..Len(s) : s[i] # " " } IN
    IF keep = {} THEN <<>>
    ELSE SubSeq(s, CHOOSE i \in keep : \A j \in keep : i <= j,
                   CHOOSE i \in keep : \A j \in keep : i >= j)

\* the texts f(1), ..., f(n) joined in this order with no separator
RECURSIVE JoinFirst(_, _)
JoinFirst(f, n) == IF n = 0 THEN <<>> ELSE JoinFirst(f, n - 1) \o f[n]

\* the whole text of a tag, its text nodes in document order
TextOf(tag) == JoinFirst(tag.strings, Len(tag.strings))

ContentReturned == pc = "hl_append" /\ c_soup # None

\* C7 as stated: the content is the paragraphs' texts, each stripped of its
\* surrounding whitespace, joined in document order with no separator.
C7_ContentJoinsStrippedParagraphs ==
    ContentReturned =>
        LET paras == c_soup[1].body[1] IN
        c_ret = Some(JoinFirst([i \in 1..Len(paras) |-> StripEnds(TextOf(paras[i]))],
                               Len(paras)))

\* C7 amended: the content is the paragraphs' texts exactly as they stand,
\* whitespace kept, joined in document order with no separator.
C7_ContentJoinsRawParagraphs ==
    ContentReturned =>
        LET paras == c_soup[1].body[1] IN
        c_ret = Some(JoinFirst([i \in 1..Len(paras) |-> TextOf(paras[i])], Len(paras)))

C7_Witness ==
    /\ ContentReturned
    /\ c_soup[1].body[1] = << Tag(<< <<"P", "1">> >>), Tag(<< <<" ", "b">>, <<"c", " ">> >>) >>
    /\ c_ret = Some(<<"P", "1", " ", "b", "c", " ">>)

\* C8: None from make_request is propagated: for the category URL,
\* scrape_highlight_news returns None having issued no article fetch; for an
\* article URL, scrape_news_content returns None.
C8_AbsentIsPropagated ==
    /\ (HighlightDone /\ h_soup = None) =>
          /\ h_ret = None /\ raised = "none"
          /\ requests = 1 /\ r_caller = "highlight" /\ c_url = "" /\ h_data = <<>>
    /\ (HighlightDone /\ h_ret # None) => h_soup # None
    /\ (pc = "hl_append" /\ c_soup = None) => (r_ret = None /\ c_ret = None)
    /\ (pc = "hl_append" /\ r_ret = None) => c_ret = None

C8_Witness ==
    /\ HighlightDone /\ h_ret # None /\ Len(h_data) = 2
    /\ h_data[1].content = None /\ h_data[2].content # None

C8_WitnessCategory == HighlightDone /\ h_soup = None /\ h_ret = None /\ requests = 1

TextDone == op = "extract_text" /\ pc = "done"

\* C9 as stated: extract_text never raises; None, or an element whose text
\* extraction throws, gives the default; any other element gives its text
\* stripped of surrounding whitespace.
C9_TextStrippedAtItsEnds ==
    TextDone =>
        /\ x_ret.raised = "none"
        /\ x_element.kind \in {"none", "other"} => x_ret.value = x_default
        /\ x_element.kind = "tag" => x_ret.value = StripEnds(TextOf(x_element))

\* C9 amended: extract_text never raises; None, a falsy object, or an element
\* whose text extraction throws, gives the default; a tag gives its text nodes,
\* each stripped of its own surrounding whitespace, joined with no separator,
\* which for a tag with a single text node is its text stripped of surrounding
\* whitespace.
C9_EveryTextNodeStripped ==
    TextDone =>
        /\ x_ret.raised = "none"
        /\ x_element.kind \in {"none", "falsy", "other"} => x_ret.value = x_default
        /\ x_element.kind = "tag" =>
              LET nodes == x_element.strings IN
              /\ x_ret.value = JoinFirst([i \in 1..Len(nodes) |-> StripEnds(nodes[i])],
                                         Len(nodes))
              /\ Len(nodes) = 1 => x_ret.value = StripEnds(TextOf(x_element))

C9_Witness ==
    /\ TextDone
    /\ x_element = Tag(<< <<" ", "a">>, <<"a", " ">> >>)
    /\ x_ret = Outcome("none", <<"a", "a">>)

\* C10: in one scrape_highlight_news call an article whose fetch exhausted its
\* retries neither aborts nor shortens the listing: its record is appended
\* with content None, the later links are fetched, one record per link is
\* returned, and the call issues exactly 1 + m make_request calls for m links,
\* each of at most max_retries GETs.
C10_ExhaustedArticleKeepsListing ==
    /\ CountEv(trace, "get") <= max_retries
    /\ (pc = "hl_append" /\ r_ret = None) => c_ret = None
    /\ (HighlightDone /\ \E i \in 1..Len(h_data) : h_data[i].content = None) =>
          /\ raised = "none"
          /\ h_ret = Some(h_data)
          /\ Len(h_data) = Len(h_links)
          /\ requests = 1 + Len(h_links)

\* The same statement, for the calls that return.
C10_WhenReturned ==
    /\ CountEv(trace, "get") <= max_retries
    /\ (pc = "hl_append" /\ r_ret = None) => c_ret = None
    /\ (HighlightDone /\ raised = "none" /\ h_soup # None) =>
          /\ h_ret = Some(h_data)
          /\ Len(h_data) = Len(h_links)
          /\ requests = 1 + Len(h_links)

====
